---- MODULE Spec2Model ----
(***************************************************************************)
(* S3StorageClient (packages/core): the security validator and the facade  *)
(* operations that call it before delegating to the S3 transport.          *)
(*                                                                         *)
(* Optional values (a TypeScript `x?: T`) are sets of at most one element: *)
(* Undefined is the absent value, Some(v) the value v.  Arrays that the    *)
(* code only reads with includes/some/length are sets.  Strings that the   *)
(* code inspects with startsWith (keys, prefixes) are sequences of         *)
(* one-character strings; other strings are TLA+ strings.                  *)
(***************************************************************************)
EXTENDS Integers, Sequences, FiniteSets, TLC

VARIABLES
    security,   \* this.security, captured by the constructor
    defaultBucket, \* this.defaultBucket
    call,       \* the facade method invoked last, with its arguments
    request,    \* the arguments that invocation passed to validateOperation
    result,     \* how the invocation's promise settled
    sent,       \* the commands the invocation passed to this.client.send
    answered,   \* what this.client.send answered to each of them
    signed,     \* the commands the invocation passed to getSignedUrl
    client,     \* this.client, the transport handle built by the constructor
    session,    \* what an observer of the client's life has seen so far, if
                \* there is one: how the previous invocation ended and how
                \* many changes the store has applied
    inflight    \* the earlier invocations whose promise the caller has not
                \* awaited: each is suspended at its `await`

vars == <<security, defaultBucket, call, request, result, sent, answered, signed,
          client, session, inflight>>

----------------------------------------------------------------------------
(* Optional values and JavaScript truthiness *)

Undefined == {}
Some(v) == {v}
Val(o) == CHOOSE v \in o : TRUE

\* `x && ...` on an optional string: undefined and "" are falsy
TruthyString(o) == o # Undefined /\ Val(o) # ""
\* `x && ...` on an optional number: undefined and 0 are falsy
TruthyNumber(o) == o # Undefined /\ Val(o) # 0
\* `xs?.length` on an optional array: undefined and [] are falsy
\* a variant in which a list that is present restricts even when empty
HasLengthWhenDefined(o) == o # Undefined

HasLength(o) == o # Undefined /\ Val(o) # {}

\* a variant in which "*" in an entry stands for any rest of the key
StartsWithGlob(key, prefix) ==
    LET stars == { i \in 1..Len(prefix) : prefix[i] = "*" }
        n == IF stars = {} THEN Len(prefix)
             ELSE (CHOOSE i \in stars : \A j \in stars : i <= j) - 1
    IN  /\ n <= Len(key)
        /\ \A i \in 1..n : key[i] = prefix[i]

\* String.prototype.startsWith on character sequences
StartsWith(key, prefix) ==
    /\ Len(prefix) <= Len(key)
    /\ \A i \in 1..Len(prefix) : key[i] = prefix[i]

\* Buffer.byteLength of a body given as its bytes
ByteLength(body) == Len(body)

----------------------------------------------------------------------------
(* Bounds and input domains *)

MaxBodyLen == 3

\* a body is its bytes; only their number is read
Bodies == UNION {[1..n -> {"x"}] : n \in 0..MaxBodyLen}

Keys == { <<"a">>, <<"a", "b">>, <<"a", "*">>, <<"*", "a">> }

ContentTypes == {"", "image/png", "text/html"}
RoleNames == {"", "admin", "editor", "ghost", "constructor"}
Buckets == {"", "other"}

\* the S3Operation union type
S3Operation ==
    { "read", "write", "delete", "list", "acl_read", "acl_write",
      "presigned_upload", "presigned_download", "presigned_delete",
      "presigned_list" }

\* property names every object literal inherits from Object.prototype
ObjectPrototypeKeys == {"constructor", "toString", "hasOwnProperty", "valueOf"}

----------------------------------------------------------------------------
(* Security configurations (S3SecurityConfig) the client may be built with *)

OptSizes == {Undefined, Some(0), Some(2)}
OptTypeLists == {Undefined, Some({}), Some({"image/png"})}
OptAllowedPrefixes == {Undefined, Some({}), Some({<<"a">>})}
OptDeniedPrefixes == {Undefined, Some({}), Some({<<"a", "*">>})}

RolePermissions(ops, prefixes, size, types) ==
    [ allowedOperations |-> ops, allowedPrefixes |-> prefixes,
      maxFileSize |-> size, allowedContentTypes |-> types ]

\* the documented admin role: every base operation, prefix "*", a size
\* limit above the global one
AdminPermissions ==
    RolePermissions({"read", "write", "delete", "list", "acl_read", "acl_write"},
                    Some({<<"*">>}), Some(3), Undefined)

EditorPermissionSets ==
    { RolePermissions(ops, prefixes, size, types) :
        ops \in { {"read", "list"},
                  {"read", "write", "delete", "list", "acl_write"} },
        prefixes \in {Undefined, Some({}), Some({<<"a", "b">>})},
        size \in {Undefined, Some(0), Some(1)},
        types \in OptTypeLists }

RoleBasedAccess(editor, dflt) ==
    [ roles |-> [r \in {"admin", "editor"} |->
                    IF r = "editor" THEN editor ELSE AdminPermissions],
      defaultRole |-> dflt ]

SecurityConfig(size, types, allowed, denied, rba) ==
    [ maxFileSize |-> size, allowedContentTypes |-> types,
      allowedPrefixes |-> allowed, deniedPrefixes |-> denied,
      roleBasedAccess |-> rba ]

\* every combination of the global limits, without roles
GlobalConfigs ==
    { SecurityConfig(size, types, allowed, denied, Undefined) :
        size \in OptSizes, types \in OptTypeLists,
        allowed \in OptAllowedPrefixes, denied \in OptDeniedPrefixes }

\* every combination of a role's limits, under no global limit and under
\* every global limit at once
RoleConfigs ==
    { SecurityConfig(g[1], g[2], g[3], g[4], Some(RoleBasedAccess(editor, dflt))) :
        g \in { <<Undefined, Undefined, Undefined, Undefined>>,
                <<Some(2), Some({"image/png"}), Some({<<"a">>}), Some({<<"a", "*">>})>> },
        editor \in EditorPermissionSets,
        dflt \in {Undefined} }

\* the same roles with `defaultRole` naming one of them, under no global limit
DefaultRoleConfigs ==
    { SecurityConfig(Undefined, Undefined, Undefined, Undefined,
                     Some(RoleBasedAccess(editor, Some("editor")))) :
        editor \in { e \in EditorPermissionSets :
                       e.maxFileSize = Undefined /\ e.allowedContentTypes = Undefined } }

\* the documented shape: a global size limit with an admin role whose own
\* limit is above it
AdminOverGlobalConfigs ==
    { SecurityConfig(Some(2), Undefined, Undefined, Undefined,
                     Some(RoleBasedAccess(
                              RolePermissions({"read", "write", "list"}, Undefined,
                                              Some(1), Undefined),
                              Undefined))) }

SecurityConfigs ==
    {Undefined} \cup
    {Some(c) : c \in GlobalConfigs \cup RoleConfigs \cup DefaultRoleConfigs
                        \cup AdminOverGlobalConfigs}

----------------------------------------------------------------------------
(* validateOperation: each check is Pass or the error it throws *)

Pass == [threw |-> FALSE, name |-> "", message |-> ""]
Throw(name, message) == [threw |-> TRUE, name |-> name, message |-> message]

OperationOptions(role, contentType, contentLength) ==
    [role |-> role, contentType |-> contentType, contentLength |-> contentLength]

NoOptions == OperationOptions(Undefined, Undefined, Undefined)

\* a variant that exempts requests that carry a role
ContentTypeCheckRoleExempt(sec, options) ==
    IF /\ TruthyString(options.contentType)
       /\ ~ TruthyString(options.role)
       /\ HasLength(sec.allowedContentTypes)
       /\ Val(options.contentType) \notin Val(sec.allowedContentTypes)
    THEN Throw("Error", "Content type is not allowed")
    ELSE Pass

ContentTypeCheck(sec, options) ==
    IF /\ TruthyString(options.contentType)
       /\ HasLength(sec.allowedContentTypes)
       /\ Val(options.contentType) \notin Val(sec.allowedContentTypes)
    THEN Throw("Error", "Content type is not allowed")
    ELSE Pass

\* a variant in which a role's own maxFileSize replaces the global one
FileSizeCheckRoleOverrides(sec, options) ==
    LET named == /\ TruthyString(options.role)
                 /\ sec.roleBasedAccess # Undefined
                 /\ Val(options.role) \in DOMAIN Val(sec.roleBasedAccess).roles
        own == Val(sec.roleBasedAccess).roles[Val(options.role)].maxFileSize
        limit == IF named /\ TruthyNumber(own) THEN own ELSE sec.maxFileSize
    IN  IF /\ TruthyNumber(options.contentLength)
           /\ TruthyNumber(limit)
           /\ Val(options.contentLength) > Val(limit)
        THEN Throw("Error", "File size exceeds maximum allowed size")
        ELSE Pass

FileSizeCheck(sec, options) ==
    IF /\ TruthyNumber(options.contentLength)
       /\ TruthyNumber(sec.maxFileSize)
       /\ Val(options.contentLength) > Val(sec.maxFileSize)
    THEN Throw("Error", "File size exceeds maximum allowed size")
    ELSE Pass

AllowedPrefixCheck(sec, key) ==
    IF /\ HasLength(sec.allowedPrefixes)
       /\ ~ \E prefix \in Val(sec.allowedPrefixes) : StartsWith(key, prefix)
    THEN Throw("Error", "Access to prefix in key is not allowed")
    ELSE Pass

\* a variant in which a matching allowed prefix overrides a denied one
DeniedPrefixCheckOverridden(sec, key) ==
    IF /\ HasLength(sec.deniedPrefixes)
       /\ \E prefix \in Val(sec.deniedPrefixes) : StartsWith(key, prefix)
       /\ ~ ( /\ HasLength(sec.allowedPrefixes)
              /\ \E prefix \in Val(sec.allowedPrefixes) : StartsWith(key, prefix) )
    THEN Throw("Error", "Access to prefix in key is denied")
    ELSE Pass

DeniedPrefixCheck(sec, key) ==
    IF /\ HasLength(sec.deniedPrefixes)
       /\ \E prefix \in Val(sec.deniedPrefixes) : StartsWith(key, prefix)
    THEN Throw("Error", "Access to prefix in key is denied")
    ELSE Pass

\* `if (options?.role && this.security.roleBasedAccess)`
RoleSection(sec, options) ==
    TruthyString(options.role) /\ sec.roleBasedAccess # Undefined

\* `roles[options.role]`: an own property, else one inherited from
\* Object.prototype, else undefined
OwnRole(sec, options) ==
    Val(options.role) \in DOMAIN Val(sec.roleBasedAccess).roles
InheritedRole(sec, options) ==
    /\ ~ OwnRole(sec, options)
    /\ Val(options.role) \in ObjectPrototypeKeys
RoleConfig(sec, options) == Val(sec.roleBasedAccess).roles[Val(options.role)]

RoleConfiguredCheck(sec, options) ==
    IF RoleSection(sec, options)
       /\ ~ OwnRole(sec, options) /\ ~ InheritedRole(sec, options)
    THEN Throw("Error", "Role is not configured")
    ELSE Pass

\* a variant that lets a role that may read do everything
RoleOperationCheckReadImpliesAll(sec, operation, options) ==
    IF ~ RoleSection(sec, options) THEN Pass
    ELSE IF InheritedRole(sec, options)
    THEN Throw("TypeError", "Cannot read properties of undefined (reading 'includes')")
    ELSE IF OwnRole(sec, options)
            /\ operation \notin RoleConfig(sec, options).allowedOperations
            /\ "read" \notin RoleConfig(sec, options).allowedOperations
    THEN Throw("Error", "Operation is not allowed for role")
    ELSE Pass

RoleOperationCheck(sec, operation, options) ==
    IF ~ RoleSection(sec, options) THEN Pass
    ELSE IF InheritedRole(sec, options)
    THEN \* allowedOperations of an inherited property is undefined
         Throw("TypeError", "Cannot read properties of undefined (reading 'includes')")
    ELSE IF OwnRole(sec, options)
            /\ operation \notin RoleConfig(sec, options).allowedOperations
    THEN Throw("Error", "Operation is not allowed for role")
    ELSE Pass

RolePrefixCheck(sec, key, options) ==
    IF /\ RoleSection(sec, options) /\ OwnRole(sec, options)
       /\ HasLength(RoleConfig(sec, options).allowedPrefixes)
       /\ ~ \E prefix \in Val(RoleConfig(sec, options).allowedPrefixes) :
               StartsWith(key, prefix)
    THEN Throw("Error", "Access to key is not allowed for role")
    ELSE Pass

RoleContentTypeCheck(sec, options) ==
    IF /\ RoleSection(sec, options) /\ OwnRole(sec, options)
       /\ TruthyString(options.contentType)
       /\ HasLength(RoleConfig(sec, options).allowedContentTypes)
       /\ Val(options.contentType) \notin
              Val(RoleConfig(sec, options).allowedContentTypes)
    THEN Throw("Error", "Content type is not allowed for role")
    ELSE Pass

RoleFileSizeCheck(sec, options) ==
    IF /\ RoleSection(sec, options) /\ OwnRole(sec, options)
       /\ TruthyNumber(options.contentLength)
       /\ TruthyNumber(RoleConfig(sec, options).maxFileSize)
       /\ Val(options.contentLength) > Val(RoleConfig(sec, options).maxFileSize)
    THEN Throw("Error", "File size exceeds maximum allowed size for role")
    ELSE Pass

\* a variant that tests the size before the content type and the role before
\* the prefixes
ChecksReordered(sec, operation, key, options) ==
    << FileSizeCheck(sec, options),
       ContentTypeCheck(sec, options),
       RoleConfiguredCheck(sec, options),
       RoleOperationCheck(sec, operation, options),
       AllowedPrefixCheck(sec, key),
       DeniedPrefixCheck(sec, key),
       RolePrefixCheck(sec, key, options),
       RoleContentTypeCheck(sec, options),
       RoleFileSizeCheck(sec, options) >>

\* the checks in the order the statements appear in validateOperation
Checks(sec, operation, key, options) ==
    << ContentTypeCheck(sec, options),
       FileSizeCheck(sec, options),
       AllowedPrefixCheck(sec, key),
       DeniedPrefixCheck(sec, key),
       RoleConfiguredCheck(sec, options),
       RoleOperationCheck(sec, operation, options),
       RolePrefixCheck(sec, key, options),
       RoleContentTypeCheck(sec, options),
       RoleFileSizeCheck(sec, options) >>

\* the first throw of a sequence of checks ends the function
FirstThrow(checks) ==
    IF \E i \in 1..Len(checks) : checks[i].threw
    THEN checks[CHOOSE i \in 1..Len(checks) :
                    /\ checks[i].threw
                    /\ \A j \in 1..(i - 1) : ~ checks[j].threw]
    ELSE Pass

\* a variant without the permissive early return
validateOperationStrict(operation, key, options) ==
    IF security = Undefined THEN Throw("Error", "Security is not configured")
    ELSE FirstThrow(Checks(Val(security), operation, key, options))

\* a variant with a memory: after an invocation that was refused, the next
\* request is refused whatever it asks for
validateOperationWithMemory(operation, key, options) ==
    IF security = Undefined THEN Pass
    ELSE IF session # Undefined /\ Val(session).previous = "refused"
    THEN Throw("Error", "Too many refused requests")
    ELSE FirstThrow(Checks(Val(security), operation, key, options))

\* a variant that shares its decision between concurrent invocations: while
\* an allowed invocation is still suspended, the next request is allowed
validateOperationShared(operation, key, options) ==
    IF security = Undefined THEN Pass
    ELSE IF \E i \in DOMAIN inflight : inflight[i].validated /\ inflight[i].allowed
    THEN Pass
    ELSE FirstThrow(Checks(Val(security), operation, key, options))

validateOperation(operation, key, options) ==
    IF security = Undefined THEN Pass
    ELSE FirstThrow(Checks(Val(security), operation, key, options))

----------------------------------------------------------------------------
(* The transport (S3Client.send), the signer (getSignedUrl) and promises *)

maxDeleteExpiration == 3600
maxAclExpiration == 3600
maxExpiration == 24 * 3600
DefaultExpiresIn == 3600

\* what this.client.send may answer: success, or an error of the store
SendOk == Pass
SendErrors == { Throw("NotFound", "UnknownError"),
                Throw("AccessDenied", "Access Denied"),
                Throw("NetworkingError", "getaddrinfo ENOTFOUND") }
Responses == {SendOk} \cup SendErrors

Resolved(value) == [status |-> "resolved", name |-> "", message |-> "", value |-> value]
Rejected(error) ==
    [status |-> "rejected", name |-> error.name, message |-> error.message,
     value |-> "undefined"]

\* the default parameter `expiresIn: number = 3600`
ExpiresInOr(expiresIn) == IF expiresIn = Undefined THEN DefaultExpiresIn ELSE Val(expiresIn)

\* `bucket || this.defaultBucket`
BucketOr(bucket, dflt) == IF TruthyString(bucket) THEN Val(bucket) ELSE dflt

\* what one invocation did: the validator call, the settled promise, the
\* commands sent and the commands signed
Run(req, res, snt, sgn) ==
    [request |-> req, result |-> res, sent |-> snt, answered |-> <<>>, signed |-> sgn]

\* an invocation that passed one command to this.client.send
Sent(req, res, command, response) ==
    [request |-> req, result |-> res, sent |-> <<command>>,
     answered |-> <<response>>, signed |-> <<>>]

Validated(operation, key, options) ==
    Some([operation |-> operation, key |-> key, options |-> options])

\* a variant that sends a failed command a second time
SendThenReturnRetrying(req, command, response, value) ==
    IF response.threw
    THEN [request |-> req, result |-> Rejected(response),
          sent |-> <<command, command>>, answered |-> <<response, response>>,
          signed |-> <<>>]
    ELSE Sent(req, Resolved(value), command, response)

\* `await this.client.send(command)` followed by `return value`
SendThenReturn(req, command, response, value) ==
    Sent(req, IF response.threw THEN Rejected(response) ELSE Resolved(value),
         command, response)

\* a variant that also sends the command it signs
SignAndSendThenReturn(req, command, expiresIn) ==
    [request |-> req, result |-> Resolved("url"), sent |-> <<command>>,
     answered |-> <<SendOk>>,
     signed |-> <<[command |-> command, expiresIn |-> expiresIn]>>]

\* `return getSignedUrl(this.client, command, { expiresIn })`
SignAndReturn(req, command, expiresIn) ==
    Run(req, Resolved("url"), <<>>, <<[command |-> command, expiresIn |-> expiresIn]>>)

\* a throw before any delegated call rejects the promise
Fail(req, error) == Run(req, Rejected(error), <<>>, <<>>)

----------------------------------------------------------------------------
(* Facade methods: what an invocation does with its arguments *)

\* a variant in which the caller's options come last and replace the
\* declared content type and the measured length
uploadFileRunOptionsLast(key, body, contentType, options, response) ==
    LET opts == OperationOptions(options.role,
                    IF options.contentType # Undefined THEN options.contentType
                    ELSE contentType,
                    IF options.contentLength # Undefined THEN options.contentLength
                    ELSE Some(ByteLength(body)))
        req == Validated("write", key, opts)
        v == validateOperation("write", key, opts)
    IN  IF v.threw THEN Fail(req, v)
        ELSE SendThenReturn(req,
                [cmd |-> "PutObject", Bucket |-> BucketOr(options.bucket, defaultBucket),
                 Key |-> key, Body |-> body, ContentType |-> contentType,
                 Metadata |-> options.metadata],
                response, "undefined")

\* a variant that answers false only when the bucket is not found
checkBucketRunNotFoundOnly(bucket, response) ==
    Sent(Undefined,
         IF ~ response.threw THEN Resolved("true")
         ELSE IF response.name = "NotFound" THEN Resolved("false")
         ELSE Rejected(response),
         [cmd |-> "HeadBucket", Bucket |-> BucketOr(bucket, defaultBucket)], response)

checkBucketRun(bucket, response) ==
    Sent(Undefined, Resolved(IF response.threw THEN "false" ELSE "true"),
         [cmd |-> "HeadBucket", Bucket |-> BucketOr(bucket, defaultBucket)], response)

createBucketRun(bucket, response) ==
    SendThenReturn(Undefined,
        [cmd |-> "CreateBucket", Bucket |-> BucketOr(bucket, defaultBucket)],
        response, "undefined")

deleteBucketRun(bucket, response) ==
    SendThenReturn(Undefined,
        [cmd |-> "DeleteBucket", Bucket |-> BucketOr(bucket, defaultBucket)],
        response, "undefined")

\* a variant that sends the object before it validates
uploadFileRunSendFirst(key, body, contentType, options, response) ==
    LET opts == OperationOptions(options.role, contentType, Some(ByteLength(body)))
        req == Validated("write", key, opts)
        v == validateOperation("write", key, opts)
        put == [cmd |-> "PutObject", Bucket |-> BucketOr(options.bucket, defaultBucket),
                Key |-> key, Body |-> body, ContentType |-> contentType,
                 Metadata |-> options.metadata]
    IN  IF response.threw THEN Sent(req, Rejected(response), put, response)
        ELSE IF v.threw THEN Sent(req, Rejected(v), put, response)
        ELSE Sent(req, Resolved("undefined"), put, response)

uploadFileRun(key, body, contentType, options, response) ==
    LET opts == OperationOptions(options.role, contentType, Some(ByteLength(body)))
        req == Validated("write", key, opts)
        v == validateOperation("write", key, opts)
    IN  IF v.threw THEN Fail(req, v)
        ELSE SendThenReturn(req,
                [cmd |-> "PutObject", Bucket |-> BucketOr(options.bucket, defaultBucket),
                 Key |-> key, Body |-> body, ContentType |-> contentType,
                 Metadata |-> options.metadata],
                response, "undefined")

downloadFileRun(key, options, response) ==
    LET opts == OperationOptions(options.role, options.contentType, options.contentLength)
        req == Validated("read", key, opts)
        v == validateOperation("read", key, opts)
    IN  IF v.threw THEN Fail(req, v)
        ELSE SendThenReturn(req,
                [cmd |-> "GetObject", Bucket |-> BucketOr(options.bucket, defaultBucket),
                 Key |-> key],
                response, "Buffer")

deleteFileRun(key, bucket, response) ==
    SendThenReturn(Undefined,
        [cmd |-> "DeleteObject", Bucket |-> BucketOr(bucket, defaultBucket), Key |-> key],
        response, "undefined")

listFilesRun(prefix, bucket, response) ==
    SendThenReturn(Undefined,
        [cmd |-> "ListObjectsV2", Bucket |-> BucketOr(bucket, defaultBucket),
         Prefix |-> prefix],
        response, "Contents")

updateFilePermissionsRun(key, acl, bucket, response) ==
    SendThenReturn(Undefined,
        [cmd |-> "PutObjectAcl", Bucket |-> BucketOr(bucket, defaultBucket),
         Key |-> key, ACL |-> acl],
        response, "undefined")

getFilePermissionsRun(key, bucket, response) ==
    SendThenReturn(Undefined,
        [cmd |-> "GetObjectAcl", Bucket |-> BucketOr(bucket, defaultBucket), Key |-> key],
        response, "Grants")

\* a variant without the 24 hour ceiling
getPresignedUploadUrlRunNoCeiling(key, expires, options) ==
    LET expiresIn == ExpiresInOr(expires)
        opts == OperationOptions(options.role, options.contentType, options.maxSize)
        req == Validated("write", key, opts)
        v == validateOperation("write", key, opts)
    IN  IF v.threw THEN Fail(req, v)
        ELSE SignAndReturn(req,
                [cmd |-> "PutObject", Bucket |-> BucketOr(options.bucket, defaultBucket),
                 Key |-> key, ContentType |-> options.contentType,
                 Metadata |-> options.metadata],
                expiresIn)

getPresignedUploadUrlRun(key, expires, options) ==
    LET expiresIn == ExpiresInOr(expires)
        opts == OperationOptions(options.role, options.contentType, options.maxSize)
        req == Validated("write", key, opts)
        v == validateOperation("write", key, opts)
    IN  IF v.threw THEN Fail(req, v)
        ELSE IF expiresIn > maxExpiration
        THEN Fail(req, Throw("Error", "Expiration time cannot exceed"))
        ELSE SignAndReturn(req,
                [cmd |-> "PutObject", Bucket |-> BucketOr(options.bucket, defaultBucket),
                 Key |-> key, ContentType |-> options.contentType,
                 Metadata |-> options.metadata],
                expiresIn)

\* a variant that validates the presign kind instead of the base kind
getPresignedDownloadUrlRunPresignKind(key, expires, options) ==
    LET expiresIn == ExpiresInOr(expires)
        opts == OperationOptions(options.role, Undefined, Undefined)
        req == Validated("presigned_download", key, opts)
        v == validateOperation("presigned_download", key, opts)
    IN  IF v.threw THEN Fail(req, v)
        ELSE SignAndReturn(req,
                [cmd |-> "GetObject", Bucket |-> BucketOr(options.bucket, defaultBucket),
                 Key |-> key],
                expiresIn)

getPresignedDownloadUrlRun(key, expires, options) ==
    LET expiresIn == ExpiresInOr(expires)
        opts == OperationOptions(options.role, Undefined, Undefined)
        req == Validated("read", key, opts)
        v == validateOperation("read", key, opts)
    IN  IF v.threw THEN Fail(req, v)
        ELSE SignAndReturn(req,
                [cmd |-> "GetObject", Bucket |-> BucketOr(options.bucket, defaultBucket),
                 Key |-> key],
                expiresIn)

\* a variant that tests the lifetime before it validates
getPresignedDeleteUrlRunCeilingFirst(key, expires, options) ==
    LET expiresIn == ExpiresInOr(expires)
        opts == OperationOptions(options.role, Undefined, Undefined)
        req == Validated("delete", key, opts)
        v == validateOperation("delete", key, opts)
    IN  IF expiresIn > maxDeleteExpiration
        THEN Fail(req, Throw("Error", "Delete URL expiration cannot exceed"))
        ELSE IF v.threw THEN Fail(req, v)
        ELSE SignAndReturn(req,
                [cmd |-> "DeleteObject", Bucket |-> BucketOr(options.bucket, defaultBucket),
                 Key |-> key],
                expiresIn)

getPresignedDeleteUrlRun(key, expires, options) ==
    LET expiresIn == ExpiresInOr(expires)
        opts == OperationOptions(options.role, Undefined, Undefined)
        req == Validated("delete", key, opts)
        v == validateOperation("delete", key, opts)
    IN  IF v.threw THEN Fail(req, v)
        ELSE IF expiresIn > maxDeleteExpiration
        THEN Fail(req, Throw("Error", "Delete URL expiration cannot exceed"))
        ELSE SignAndReturn(req,
                [cmd |-> "DeleteObject", Bucket |-> BucketOr(options.bucket, defaultBucket),
                 Key |-> key],
                expiresIn)

getPresignedListUrlRun(prefix, expires, options) ==
    LET expiresIn == ExpiresInOr(expires)
        opts == OperationOptions(options.role, Undefined, Undefined)
        req == Validated("list", prefix, opts)
        v == validateOperation("list", prefix, opts)
    IN  IF v.threw THEN Fail(req, v)
        ELSE SignAndReturn(req,
                [cmd |-> "ListObjectsV2", Bucket |-> BucketOr(options.bucket, defaultBucket),
                 Prefix |-> prefix],
                expiresIn)

getPresignedAclUrlRun(key, acl, expires, options) ==
    LET expiresIn == ExpiresInOr(expires)
        opts == OperationOptions(options.role, Undefined, Undefined)
        req == Validated("acl_write", key, opts)
        v == validateOperation("acl_write", key, opts)
    IN  IF v.threw THEN Fail(req, v)
        ELSE IF expiresIn > maxAclExpiration
        THEN Fail(req, Throw("Error", "ACL URL expiration cannot exceed"))
        ELSE SignAndReturn(req,
                [cmd |-> "PutObjectAcl", Bucket |-> BucketOr(options.bucket, defaultBucket),
                 Key |-> key, ACL |-> acl],
                expiresIn)

----------------------------------------------------------------------------
(* Arguments the callers pass *)

OptRoles == {Undefined} \cup {Some(r) : r \in RoleNames}
OptContentTypes == {Undefined} \cup {Some(t) : t \in ContentTypes}
OptBuckets == {Undefined} \cup {Some(b) : b \in Buckets}
OptExpiresIn ==
    { Undefined, Some(maxDeleteExpiration), Some(maxDeleteExpiration + 1),
      Some(maxExpiration), Some(maxExpiration + 1) }
Acls == {"private", "public-read-write"}

Metadata == [uploadedBy |-> "user123"]

UploadOptions ==
    { [role |-> r, contentType |-> Undefined, contentLength |-> Undefined,
       bucket |-> Undefined, metadata |-> Undefined] : r \in OptRoles }
    \cup
    { [role |-> r, contentType |-> Some("text/html"), contentLength |-> Some(0),
       bucket |-> Some("other"), metadata |-> Some(Metadata)] :
        r \in {Undefined, Some("editor")} }

DownloadOptions ==
    { [role |-> r, contentType |-> Undefined, contentLength |-> Undefined,
       bucket |-> Undefined] : r \in OptRoles }
    \cup
    { [role |-> r, contentType |-> Some("text/html"), contentLength |-> Some(MaxBodyLen),
       bucket |-> Some("other")] : r \in OptRoles }

PresignedUploadOptions ==
    { [role |-> r, contentType |-> t, maxSize |-> m, bucket |-> Undefined,
       metadata |-> Undefined] :
        r \in {Undefined, Some("editor"), Some("admin")},
        t \in {Undefined, Some("text/html")},
        m \in {Undefined, Some(0), Some(MaxBodyLen)} }

PresignedOptions == { [role |-> r, bucket |-> Undefined] : r \in OptRoles }

----------------------------------------------------------------------------
(* The state machine: the client is constructed, then called; the caller  *)
(* takes each settled promise before the next call                        *)

Idle == Undefined
NoRun == Run(Undefined, Resolved("undefined"), <<>>, <<>>)

\* the S3Client the constructor builds from the configuration
S3Client ==
    [region |-> "us-east-1", endpoint |-> "http://localhost:9000", forcePathStyle |-> TRUE]

\* the commands that change the store when the store accepts them
MutatingCommands ==
    {"CreateBucket", "DeleteBucket", "PutObject", "DeleteObject", "PutObjectAcl"}

\* how many changes the store applied during an invocation
Mutations(run) ==
    Cardinality({ i \in DOMAIN run.sent :
                    /\ run.sent[i].cmd \in MutatingCommands
                    /\ ~ run.answered[i].threw })

\* how an invocation ended: its promise resolved, it was rejected before
\* anything was sent, or it was rejected by the transport
Outcome(res, snt) ==
    IF res.status = "resolved" THEN "resolved"
    ELSE IF snt = <<>> THEN "refused"
    ELSE "failed"

\* the largest number of store changes an observed life goes through
MaxMutations == 2

NewSession == [previous |-> "none", storeVersion |-> 0]

\* the policies of the clients whose life is observed
SessionConfigs ==
    { Undefined,
      Some(SecurityConfig(Some(2), Some({"image/png"}), Some({<<"a">>}),
                          Some({<<"a", "*">>}), Undefined)),
      Some(SecurityConfig(Undefined, Undefined, Undefined, Undefined,
               Some(RoleBasedAccess(
                        RolePermissions({"read", "list"}, Some({<<"a", "b">>}),
                                        Some(1), Some({"image/png"})),
                        Undefined)))) }

Constructed ==
    /\ defaultBucket = "my-bucket"
    /\ client = S3Client
    /\ call = Idle
    /\ request = NoRun.request
    /\ result = NoRun.result
    /\ sent = NoRun.sent
    /\ answered = NoRun.answered
    /\ signed = NoRun.signed
    /\ inflight = <<>>

Init ==
    /\ security \in SecurityConfigs
    /\ session = Undefined
    /\ Constructed

\* a client whose life is observed from its construction on
InitSession ==
    /\ security \in SessionConfigs
    /\ session = Some(NewSession)
    /\ Constructed

\* a variant in which a bucket named by the caller becomes the default one
InvokeRebinding(method, args, run) ==
    /\ session # Undefined =>
           Val(session).storeVersion + Mutations(run) <= MaxMutations
    /\ call' = Some([method |-> method, args |-> args])
    /\ request' = run.request
    /\ result' = run.result
    /\ sent' = run.sent
    /\ answered' = run.answered
    /\ signed' = run.signed
    /\ session' =
           IF session = Undefined THEN session
           ELSE Some([Val(session) EXCEPT
                        !.storeVersion = @ + Mutations(run)])
    /\ defaultBucket' = IF run.sent # <<>> THEN run.sent[1].Bucket ELSE defaultBucket
    /\ UNCHANGED <<security, client, inflight>>

Invoke(method, args, run) ==
    /\ session # Undefined =>
           Val(session).storeVersion + Mutations(run) <= MaxMutations
    /\ call' = Some([method |-> method, args |-> args])
    /\ request' = run.request
    /\ result' = run.result
    /\ sent' = run.sent
    /\ answered' = run.answered
    /\ signed' = run.signed
    /\ session' =
           IF session = Undefined THEN session
           ELSE Some([Val(session) EXCEPT
                        !.storeVersion = @ + Mutations(run)])
    /\ UNCHANGED <<security, defaultBucket, client, inflight>>

checkBucket ==
    /\ call = Idle
    /\ \E bucket \in OptBuckets, response \in Responses :
           Invoke("checkBucket", [bucket |-> bucket], checkBucketRun(bucket, response))

createBucket ==
    /\ call = Idle
    /\ \E bucket \in OptBuckets, response \in Responses :
           Invoke("createBucket", [bucket |-> bucket], createBucketRun(bucket, response))

deleteBucket ==
    /\ call = Idle
    /\ \E bucket \in OptBuckets, response \in Responses :
           Invoke("deleteBucket", [bucket |-> bucket], deleteBucketRun(bucket, response))

uploadFile ==
    /\ call = Idle
    /\ \E key \in Keys, body \in Bodies, contentType \in OptContentTypes,
          options \in UploadOptions, response \in Responses :
           Invoke("uploadFile",
                  [key |-> key, body |-> body, contentType |-> contentType, options |-> options],
                  uploadFileRun(key, body, contentType, options, response))

downloadFile ==
    /\ call = Idle
    /\ \E key \in Keys, options \in DownloadOptions, response \in Responses :
           Invoke("downloadFile", [key |-> key, options |-> options],
                  downloadFileRun(key, options, response))

deleteFile ==
    /\ call = Idle
    /\ \E key \in Keys, bucket \in OptBuckets, response \in Responses :
           Invoke("deleteFile", [key |-> key, bucket |-> bucket],
                  deleteFileRun(key, bucket, response))

listFiles ==
    /\ call = Idle
    /\ \E prefix \in Keys, bucket \in OptBuckets, response \in Responses :
           Invoke("listFiles", [key |-> prefix, bucket |-> bucket],
                  listFilesRun(prefix, bucket, response))

updateFilePermissions ==
    /\ call = Idle
    /\ \E key \in Keys, acl \in Acls, bucket \in OptBuckets, response \in Responses :
           Invoke("updateFilePermissions", [key |-> key, acl |-> acl, bucket |-> bucket],
                  updateFilePermissionsRun(key, acl, bucket, response))

getFilePermissions ==
    /\ call = Idle
    /\ \E key \in Keys, bucket \in OptBuckets, response \in Responses :
           Invoke("getFilePermissions", [key |-> key, bucket |-> bucket],
                  getFilePermissionsRun(key, bucket, response))

getPresignedUploadUrl ==
    /\ call = Idle
    /\ \E key \in Keys, expiresIn \in OptExpiresIn, options \in PresignedUploadOptions :
           Invoke("getPresignedUploadUrl",
                  [key |-> key, expiresIn |-> expiresIn, options |-> options],
                  getPresignedUploadUrlRun(key, expiresIn, options))

getPresignedDownloadUrl ==
    /\ call = Idle
    /\ \E key \in Keys, expiresIn \in OptExpiresIn, options \in PresignedOptions :
           Invoke("getPresignedDownloadUrl",
                  [key |-> key, expiresIn |-> expiresIn, options |-> options],
                  getPresignedDownloadUrlRun(key, expiresIn, options))

getPresignedDeleteUrl ==
    /\ call = Idle
    /\ \E key \in Keys, expiresIn \in OptExpiresIn, options \in PresignedOptions :
           Invoke("getPresignedDeleteUrl",
                  [key |-> key, expiresIn |-> expiresIn, options |-> options],
                  getPresignedDeleteUrlRun(key, expiresIn, options))

getPresignedListUrl ==
    /\ call = Idle
    /\ \E prefix \in Keys, expiresIn \in OptExpiresIn, options \in PresignedOptions :
           Invoke("getPresignedListUrl",
                  [key |-> prefix, expiresIn |-> expiresIn, options |-> options],
                  getPresignedListUrlRun(prefix, expiresIn, options))

getPresignedAclUrl ==
    /\ call = Idle
    /\ \E key \in Keys, acl \in Acls, expiresIn \in OptExpiresIn, options \in PresignedOptions :
           Invoke("getPresignedAclUrl",
                  [key |-> key, acl |-> acl, expiresIn |-> expiresIn, options |-> options],
                  getPresignedAclUrlRun(key, acl, expiresIn, options))

\* the caller takes the settled promise
Settle ==
    /\ call # Idle
    /\ call' = Idle
    /\ request' = NoRun.request
    /\ result' = NoRun.result
    /\ sent' = NoRun.sent
    /\ answered' = NoRun.answered
    /\ signed' = NoRun.signed
    /\ session' =
           IF session = Undefined THEN session
           ELSE Some([Val(session) EXCEPT !.previous = Outcome(result, sent)])
    /\ UNCHANGED <<security, defaultBucket, client, inflight>>

Next ==
    \/ checkBucket
    \/ createBucket
    \/ deleteBucket
    \/ uploadFile
    \/ downloadFile
    \/ deleteFile
    \/ listFiles
    \/ updateFilePermissions
    \/ getFilePermissions
    \/ getPresignedUploadUrl
    \/ getPresignedDownloadUrl
    \/ getPresignedDeleteUrl
    \/ getPresignedListUrl
    \/ getPresignedAclUrl
    \/ Settle

Spec == Init /\ [][Next]_vars

\* the same client, observed over its whole life
SpecSession == InitSession /\ [][Next]_vars

\* the largest number of invocations left suspended at a time
MaxInFlight == 1

\* what a suspended invocation is waiting for, whether it went through the
\* validator and whether the validator allowed it
Suspended ==
    [ awaits |-> IF sent # <<>> THEN sent[1].cmd ELSE "getSignedUrl",
      validated |-> request # Undefined,
      allowed |-> \/ request = Undefined
                  \/ ~ validateOperation(Val(request).operation, Val(request).key,
                                         Val(request).options).threw ]

\* the caller does not await the promise: the invocation stays suspended
\* at its `await this.client.send(...)` or at the promise of getSignedUrl,
\* and the caller goes on to call the client again
Suspend ==
    /\ call # Idle
    /\ sent # <<>> \/ signed # <<>>
    /\ Len(inflight) < MaxInFlight
    /\ inflight' = Append(inflight, Suspended)
    /\ call' = Idle
    /\ request' = NoRun.request
    /\ result' = NoRun.result
    /\ sent' = NoRun.sent
    /\ answered' = NoRun.answered
    /\ signed' = NoRun.signed
    /\ UNCHANGED <<security, defaultBucket, client, session>>

\* the transport or the signer answers a suspended invocation, in any order
Resume ==
    /\ \E i \in DOMAIN inflight :
           inflight' = [j \in 1..(Len(inflight) - 1) |->
                           IF j < i THEN inflight[j] ELSE inflight[j + 1]]
    /\ UNCHANGED <<security, defaultBucket, client, session, call, request, result,
                   sent, answered, signed>>

\* the policies of the clients that are called concurrently
ConcurrentConfigs == SessionConfigs

InitConcurrent ==
    /\ security \in ConcurrentConfigs
    /\ session = Undefined
    /\ Constructed

NextConcurrent ==
    \/ Next
    \/ Suspend
    \/ Resume

\* the same client, called again while earlier invocations are suspended
SpecConcurrent == InitConcurrent /\ [][NextConcurrent]_vars

----------------------------------------------------------------------------
(* Properties *)

InCall(method) == call # Idle /\ Val(call).method = method
Method == Val(call).method
Args == Val(call).args
Req == Val(request)
\* the validator's answer to the request the invocation passed to it
Decision == validateOperation(Req.operation, Req.key, Req.options)

DirectMethods == {"uploadFile", "downloadFile"}
PresignMethods ==
    { "getPresignedUploadUrl", "getPresignedDownloadUrl", "getPresignedDeleteUrl",
      "getPresignedListUrl", "getPresignedAclUrl" }
ValidatedMethods == DirectMethods \cup PresignMethods

\* C1: in uploadFile, downloadFile and the five presigned-URL issuers the
\* validator is invoked, and whenever it denies, the call is rejected with
\* the validator's error and nothing was sent to the transport or signed.
C1_DenialPreventsDelegation ==
    (call # Idle /\ Method \in ValidatedMethods) =>
        /\ request # Undefined
        /\ Decision.threw =>
              /\ result = Rejected(Decision)
              /\ sent = <<>>
              /\ signed = <<>>

C1_Witness ==
    /\ InCall("uploadFile")
    /\ Decision.threw
    /\ result = Rejected(Decision)
    /\ sent = <<>>

\* the operation kind a facade method without validation stands for
KindOf(method) ==
    CASE method = "deleteFile" -> "delete"
      [] method = "listFiles" -> "list"
      [] method = "updateFilePermissions" -> "acl_write"
      [] method = "getFilePermissions" -> "acl_read"

\* C2: deleteFile, listFiles, updateFilePermissions and getFilePermissions
\* are gated by the validator too: when the configured policy denies the
\* key for the method's operation kind, the call is rejected and nothing
\* is sent to the transport.
C2_EveryOperationGated ==
    (call # Idle /\ Method \in {"deleteFile", "listFiles", "updateFilePermissions",
                                "getFilePermissions"}) =>
        (validateOperation(KindOf(Method), Args.key, NoOptions).threw =>
            /\ result.status = "rejected"
            /\ sent = <<>>)

\* the expiry limit an issuer enforces itself; download and list have none
ExpiryLimit(method) ==
    CASE method = "getPresignedUploadUrl" -> maxExpiration
      [] method = "getPresignedDeleteUrl" -> maxDeleteExpiration
      [] method = "getPresignedAclUrl" -> maxAclExpiration
      [] OTHER -> maxExpiration + 1

\* C3: with no security configuration the validator allows every request
\* and the facade goes on to its delegated call: uploadFile and
\* downloadFile send their command, and an issuer signs unless its own
\* expiry limit stops it.
C3_NoPolicyAllowsAll ==
    (call # Idle /\ security = Undefined /\ Method \in ValidatedMethods) =>
        /\ request # Undefined
        /\ ~ Decision.threw
        /\ Method \in DirectMethods => Len(sent) = 1
        /\ Method \in PresignMethods =>
              \/ Len(signed) = 1 /\ result.status = "resolved"
              \/ /\ result.status = "rejected"
                 /\ ExpiresInOr(Args.expiresIn) > ExpiryLimit(Method)

C3_Witness ==
    /\ InCall("uploadFile")
    /\ security = Undefined
    /\ Req.options.role = Some("ghost")
    /\ Req.options.contentType = Some("text/html")
    /\ Req.options.contentLength = Some(MaxBodyLen)
    /\ Len(sent) = 1
    /\ result.status = "resolved"

\* the nine checks in the order the claim gives them
ClaimedOrder(sec, r) ==
    << ContentTypeCheck(sec, r.options),
       FileSizeCheck(sec, r.options),
       AllowedPrefixCheck(sec, r.key),
       DeniedPrefixCheck(sec, r.key),
       RoleConfiguredCheck(sec, r.options),
       RoleOperationCheck(sec, r.operation, r.options),
       RolePrefixCheck(sec, r.key, r.options),
       RoleContentTypeCheck(sec, r.options),
       RoleFileSizeCheck(sec, r.options) >>

\* C4: the checks run in the order content type, global size, global
\* allow-prefix, global deny-prefix, role existence, role operation, role
\* prefix, role content type, role size, and the call is rejected with the
\* error of the first of them that fails.
C4_FirstFailingCheckDecides ==
    (call # Idle /\ request # Undefined /\ security # Undefined) =>
        LET c == ClaimedOrder(Val(security), Req)
        IN  \A i \in 1..Len(c) :
                (c[i].threw /\ \A j \in 1..(i - 1) : ~ c[j].threw) =>
                    result = Rejected(c[i])

C4_Witness ==
    /\ call # Idle /\ request # Undefined /\ security # Undefined
    /\ LET c == ClaimedOrder(Val(security), Req)
       IN  /\ c[1].threw /\ c[2].threw /\ c[3].threw /\ c[6].threw /\ c[9].threw
           /\ result = Rejected(c[1])

\* the validator denied and the call was rejected with its error
Denied == LET decision == Decision IN decision.threw /\ result = Rejected(decision)
DeniedWith(message) == Denied /\ result.name = "Error" /\ result.message = message

MatchesAny(key, prefixes) == \E prefix \in prefixes : StartsWith(key, prefix)

GuardedCall == call # Idle /\ request # Undefined /\ security # Undefined

\* the request's content type is set and is outside a non-empty global list
OutsideGlobalTypes ==
    /\ Req.options.contentType # Undefined
    /\ HasLength(Val(security).allowedContentTypes)
    /\ Val(Req.options.contentType) \notin Val(Val(security).allowedContentTypes)

\* C5, as claimed: every request whose content type is set and is outside a
\* non-empty global allowedContentTypes is denied with the content-type
\* reason.
C5_SetContentTypeOutsideListDenied ==
    (GuardedCall /\ OutsideGlobalTypes) =>
        DeniedWith("Content type is not allowed")

\* C5, amended: every request whose content type is a non-empty string
\* outside a non-empty global allowedContentTypes is denied with the
\* content-type reason, whatever its role, key, operation kind and content
\* length; an empty string is treated as no content type.
C5_NonEmptyContentTypeOutsideListDenied ==
    (GuardedCall /\ OutsideGlobalTypes) =>
        IF Val(Req.options.contentType) # ""
        THEN DeniedWith("Content type is not allowed")
        ELSE ~ ContentTypeCheck(Val(security), Req.options).threw

C5_Witness ==
    /\ GuardedCall /\ OutsideGlobalTypes
    /\ Req.options.role = Some("admin")
    /\ Req.options.contentLength = Some(1)
    /\ Req.key = <<"*", "a">>
    /\ Val(Req.options.contentType) = "text/html"
    /\ DeniedWith("Content type is not allowed")

\* C6: every request that passes the content-type check and whose
\* contentLength n is set, under a configured global maxFileSize m >= 0, is
\* denied with the size reason when n > m, and is not denied by the size
\* check when n <= m.
C6_GlobalSizeLimit ==
    (/\ GuardedCall
     /\ Req.options.contentLength # Undefined
     /\ Val(security).maxFileSize # Undefined
     /\ ~ ContentTypeCheck(Val(security), Req.options).threw) =>
        LET n == Val(Req.options.contentLength)
            m == Val(Val(security).maxFileSize)
        IN  IF n > m
            THEN DeniedWith("File size exceeds maximum allowed size")
            ELSE result.message # "File size exceeds maximum allowed size"

\* the key matches no entry of a non-empty global allowedPrefixes
OutsideAllowedPrefixes ==
    /\ HasLength(Val(security).allowedPrefixes)
    /\ ~ MatchesAny(Req.key, Val(Val(security).allowedPrefixes))

\* the key matches an entry of the global deniedPrefixes
InsideDeniedPrefixes ==
    /\ Val(security).deniedPrefixes # Undefined
    /\ MatchesAny(Req.key, Val(Val(security).deniedPrefixes))

PassesTypeAndSize ==
    /\ ~ ContentTypeCheck(Val(security), Req.options).threw
    /\ ~ FileSizeCheck(Val(security), Req.options).threw

\* C7: a request is denied when its key matches no entry of a non-empty
\* allowedPrefixes, and it is denied when its key matches an entry of
\* deniedPrefixes even if it also matches an allowed prefix; a request that
\* is allowed passes both checks.
C7_PrefixChecksIndependent ==
    GuardedCall =>
        /\ OutsideAllowedPrefixes => Denied
        /\ InsideDeniedPrefixes => Denied
        /\ (OutsideAllowedPrefixes /\ PassesTypeAndSize) =>
              DeniedWith("Access to prefix in key is not allowed")
        /\ (InsideDeniedPrefixes /\ ~ OutsideAllowedPrefixes /\ PassesTypeAndSize) =>
              DeniedWith("Access to prefix in key is denied")
        /\ ~ Decision.threw => (~ OutsideAllowedPrefixes /\ ~ InsideDeniedPrefixes)

C7_Witness ==
    /\ GuardedCall
    /\ InsideDeniedPrefixes
    /\ HasLength(Val(security).allowedPrefixes)
    /\ MatchesAny(Req.key, Val(Val(security).allowedPrefixes))
    /\ DeniedWith("Access to prefix in key is denied")

PassesGlobalChecks ==
    /\ PassesTypeAndSize
    /\ ~ AllowedPrefixCheck(Val(security), Req.key).threw
    /\ ~ DeniedPrefixCheck(Val(security), Req.key).threw

Roles == Val(Val(security).roleBasedAccess).roles

\* C8: every request that carries a role name (a non-empty string) which is
\* not a key of the configured roles map, and that passes the global
\* checks, is denied with the role-not-configured reason.
C8_UnknownRoleDenied ==
    (/\ GuardedCall
     /\ Req.options.role # Undefined
     /\ Val(Req.options.role) # ""
     /\ Val(security).roleBasedAccess # Undefined
     /\ Val(Req.options.role) \notin DOMAIN Roles
     /\ PassesGlobalChecks) =>
        DeniedWith("Role is not configured")

\* the request carries a role that is a key of the configured roles map
CarriesConfiguredRole ==
    /\ Req.options.role # Undefined
    /\ Val(security).roleBasedAccess # Undefined
    /\ Val(Req.options.role) \in DOMAIN Roles

Role == Roles[Val(Req.options.role)]

\* C9: every request that carries a configured role whose allowedOperations
\* does not contain the requested operation kind, and that passes the
\* global checks, is denied with the operation-not-allowed-for-role reason.
C9_OperationOutsideRoleDenied ==
    (/\ GuardedCall
     /\ CarriesConfiguredRole
     /\ Req.operation \notin Role.allowedOperations
     /\ PassesGlobalChecks) =>
        DeniedWith("Operation is not allowed for role")

C9_Witness ==
    /\ GuardedCall
    /\ CarriesConfiguredRole
    /\ Role.allowedOperations = {"read", "list"}
    /\ Req.operation = "write"
    /\ PassesGlobalChecks
    /\ DeniedWith("Operation is not allowed for role")

\* C10: a request that carries a configured role whose operation is
\* allowed is itself allowed only if the key matches one of the role's
\* allowedPrefixes when the role has any, its content type (when set to a
\* non-empty string) is in the role's allowedContentTypes when the role has
\* any, and its content length (when set) does not exceed the role's
\* maxFileSize when set.
C10_RoleLimitsHoldWhenAllowed ==
    (/\ GuardedCall
     /\ CarriesConfiguredRole
     /\ Req.operation \in Role.allowedOperations
     /\ ~ Decision.threw) =>
        /\ HasLength(Role.allowedPrefixes) =>
              MatchesAny(Req.key, Val(Role.allowedPrefixes))
        /\ (TruthyString(Req.options.contentType) /\ HasLength(Role.allowedContentTypes)) =>
              Val(Req.options.contentType) \in Val(Role.allowedContentTypes)
        /\ (Req.options.contentLength # Undefined /\ Role.maxFileSize # Undefined) =>
              Val(Req.options.contentLength) <= Val(Role.maxFileSize)

\* the validator's answer under a policy given explicitly
Answer(sec, operation, key, options) ==
    IF sec = Undefined THEN Pass
    ELSE FirstThrow(Checks(Val(sec), operation, key, options))

\* the invocation named no role and the policy names a default role
DefaultRoleApplies ==
    /\ GuardedCall
    /\ Args.options.role = Undefined
    /\ Val(security).roleBasedAccess # Undefined
    /\ Val(Val(security).roleBasedAccess).defaultRole # Undefined

DefaultRole == Val(Val(security).roleBasedAccess).defaultRole

\* C11: when an invocation names no role and roleBasedAccess names a
\* defaultRole, the request is validated as that role: what the validator
\* answers to the request with the default role decides the invocation, so
\* a default role that may only read and list makes uploadFile without a
\* role fail before anything is sent.
C11_DefaultRoleSubstituted ==
    DefaultRoleApplies =>
        LET asDefault == Answer(security, Req.operation, Req.key,
                                [Req.options EXCEPT !.role = DefaultRole])
        IN  asDefault.threw =>
                (result = Rejected(asDefault) /\ sent = <<>> /\ signed = <<>>)

CeilingMethods == {"getPresignedDeleteUrl", "getPresignedAclUrl"}

\* the lifetime an issuer works with
Lifetime == ExpiresInOr(Args.expiresIn)

\* the error an issuer throws for a lifetime above its ceiling
ExpiryError(method) ==
    CASE method = "getPresignedUploadUrl" -> Throw("Error", "Expiration time cannot exceed")
      [] method = "getPresignedDeleteUrl" -> Throw("Error", "Delete URL expiration cannot exceed")
      [] method = "getPresignedAclUrl" -> Throw("Error", "ACL URL expiration cannot exceed")

\* the issuer resolved with a URL signed for the lifetime it was asked for
IssuedFor(lifetime) ==
    /\ result = Resolved("url")
    /\ sent = <<>>
    /\ Len(signed) = 1
    /\ signed[1].expiresIn = lifetime

\* C12 as stated: a presigned delete or ACL URL asked for with a lifetime
\* above 3600 seconds fails with the expiry error whatever the policy says,
\* also when the policy denies the request; with a lifetime of exactly 3600
\* seconds it is issued when the validator allows.
C12_ExpiryErrorWhateverThePolicy ==
    (call # Idle /\ Method \in CeilingMethods) =>
        /\ Lifetime > ExpiryLimit(Method) => result = Rejected(ExpiryError(Method))
        /\ (Lifetime = ExpiryLimit(Method) /\ ~ Decision.threw) => IssuedFor(Lifetime)

\* C12 (amended): a presigned delete or ACL URL asked for with a lifetime
\* above 3600 seconds is never issued: the call fails with the validator's
\* error when the validator denies and with the expiry error when the
\* validator allows; with a lifetime of exactly 3600 seconds it is issued
\* when the validator allows.
C12_CeilingAfterValidation ==
    (call # Idle /\ Method \in CeilingMethods) =>
        /\ Lifetime > ExpiryLimit(Method) =>
              /\ sent = <<>> /\ signed = <<>>
              /\ result = Rejected(IF Decision.threw THEN Decision
                                   ELSE ExpiryError(Method))
        /\ (Lifetime = ExpiryLimit(Method) /\ ~ Decision.threw) => IssuedFor(Lifetime)

C12_Witness ==
    /\ InCall("getPresignedDeleteUrl")
    /\ Lifetime = maxDeleteExpiration + 1
    /\ Decision.threw
    /\ result = Rejected(Decision)
    /\ result # Rejected(ExpiryError(Method))

WithoutRole == [Req.options EXCEPT !.role = Undefined]

EmptyOrAbsent(o) == o = Undefined \/ o = Some({})

\* absent for empty and empty for absent
Swapped(o) == IF o = Undefined THEN Some({}) ELSE Undefined

\* the policies that differ from sec in one list-valued constraint, global or
\* of one role, which is absent in the one and empty in the other
SwappedPolicies(sec) ==
    { [sec EXCEPT !.allowedContentTypes = Swapped(@)] :
        x \in {y \in {1} : EmptyOrAbsent(sec.allowedContentTypes)} }
    \cup
    { [sec EXCEPT !.allowedPrefixes = Swapped(@)] :
        x \in {y \in {1} : EmptyOrAbsent(sec.allowedPrefixes)} }
    \cup
    { [sec EXCEPT !.deniedPrefixes = Swapped(@)] :
        x \in {y \in {1} : EmptyOrAbsent(sec.deniedPrefixes)} }
    \cup
    { [sec EXCEPT !.roleBasedAccess =
            Some([Val(@) EXCEPT !.roles[r].allowedPrefixes = Swapped(@)])] :
        r \in { q \in (IF sec.roleBasedAccess = Undefined THEN {}
                       ELSE DOMAIN Val(sec.roleBasedAccess).roles) :
                  EmptyOrAbsent(Val(sec.roleBasedAccess).roles[q].allowedPrefixes) } }
    \cup
    { [sec EXCEPT !.roleBasedAccess =
            Some([Val(@) EXCEPT !.roles[r].allowedContentTypes = Swapped(@)])] :
        r \in { q \in (IF sec.roleBasedAccess = Undefined THEN {}
                       ELSE DOMAIN Val(sec.roleBasedAccess).roles) :
                  EmptyOrAbsent(Val(sec.roleBasedAccess).roles[q].allowedContentTypes) } }

\* C15: for the global allowedContentTypes, allowedPrefixes and
\* deniedPrefixes and for a role's allowedPrefixes and allowedContentTypes,
\* absent and empty are the same: replacing the one by the other leaves the
\* decision and its reason as they are, and a constraint in either form is
\* never the reason of a denial.
C15_UnsetAndEmptyAlike ==
    GuardedCall =>
        /\ LET decision == Decision
           IN  \A sec \in SwappedPolicies(Val(security)) :
                   Answer(Some(sec), Req.operation, Req.key, Req.options) = decision
        /\ result.status = "rejected" =>
              /\ EmptyOrAbsent(Val(security).allowedContentTypes) =>
                    result.message # "Content type is not allowed"
              /\ EmptyOrAbsent(Val(security).allowedPrefixes) =>
                    result.message # "Access to prefix in key is not allowed"
              /\ EmptyOrAbsent(Val(security).deniedPrefixes) =>
                    result.message # "Access to prefix in key is denied"
              /\ (CarriesConfiguredRole /\ EmptyOrAbsent(Role.allowedPrefixes)) =>
                    result.message # "Access to key is not allowed for role"
              /\ (CarriesConfiguredRole /\ EmptyOrAbsent(Role.allowedContentTypes)) =>
                    result.message # "Content type is not allowed for role"

\* an upload with a content type is allowed under lists that are all empty
C15_Witness ==
    /\ GuardedCall
    /\ Val(security).allowedContentTypes = Some({})
    /\ Val(security).allowedPrefixes = Some({})
    /\ Val(security).deniedPrefixes = Some({})
    /\ TruthyString(Req.options.contentType)
    /\ ~ Decision.threw
    /\ result.status = "resolved"

\* the methods whose lifetime has a ceiling
LimitedMethods == {"getPresignedUploadUrl", "getPresignedDeleteUrl", "getPresignedAclUrl"}

\* the invocation was rejected before anything was sent or signed
Refused == result.status = "rejected" /\ sent = <<>> /\ signed = <<>>

\* C16: validation has no memory: whatever the client did before (however
\* the previous invocation ended and however often the store was changed),
\* the decision an invocation observes, and its reason, are the ones the
\* checks give for the policy and the request alone: a request they deny is
\* refused with their reason, and a request they allow is refused only for
\* its lifetime.
C16_ValidationHistoryFree ==
    (call # Idle /\ request # Undefined) =>
        LET answer == Answer(security, Req.operation, Req.key, Req.options)
        IN  IF answer.threw
            THEN Refused /\ result = Rejected(answer)
            ELSE Refused =>
                    /\ Method \in LimitedMethods
                    /\ Lifetime > ExpiryLimit(Method)
                    /\ result = Rejected(ExpiryError(Method))

\* a request is allowed right after a refused one, in a changed store
C16_Witness ==
    /\ call # Idle /\ request # Undefined
    /\ session # Undefined
    /\ Val(session).previous = "refused"
    /\ Val(session).storeVersion > 0
    /\ security # Undefined
    /\ result.status = "resolved"

\* what a caller can branch on: the name of the error the promise carries
ExpiryKinds == { ExpiryError(method).name : method \in LimitedMethods }
TransportKinds == { error.name : error \in SendErrors }

PolicyFailure == request # Undefined /\ Decision.threw /\ result = Rejected(Decision)
ExpiryFailure ==
    /\ request # Undefined /\ ~ Decision.threw /\ Refused
    /\ Method \in LimitedMethods
TransportFailure == result.status = "rejected" /\ sent # <<>>

\* C17: a failure carries a kind the caller can branch on, and the kinds of
\* a policy denial, of an over-long lifetime and of a store failure are
\* distinct: the error of a policy denial never carries the kind of an
\* expiry error or of a transport error, and the error of an over-long
\* lifetime never carries the kind of a transport error.
C17_FailureKindsDistinct ==
    call # Idle =>
        /\ PolicyFailure => result.name \notin ExpiryKinds \cup TransportKinds
        /\ ExpiryFailure => result.name \notin TransportKinds

\* the transport answered the invocation's command with an error
TransportFailed == sent # <<>> /\ answered[1].threw

\* C18 as stated: every invocation passes at most one command to the
\* transport, and when the transport answers it with an error the promise
\* is rejected with that very error.
C18_FailuresSurfaceUnchanged ==
    call # Idle =>
        /\ Len(sent) <= 1
        /\ Len(answered) = Len(sent)
        /\ TransportFailed => result = Rejected(answered[1])

\* C18 (amended): every invocation passes at most one command to the
\* transport; when the transport answers it with an error, every method but
\* checkBucket rejects the promise with that very error, and checkBucket
\* resolves with false.
C18_FailuresSurfaceExceptCheckBucket ==
    call # Idle =>
        /\ Len(sent) <= 1
        /\ Len(answered) = Len(sent)
        /\ TransportFailed =>
              IF Method = "checkBucket"
              THEN result = Resolved("false")
              ELSE result = Rejected(answered[1])

C18_Witness ==
    /\ InCall("downloadFile")
    /\ TransportFailed
    /\ answered[1].name = "AccessDenied"
    /\ result = Rejected(answered[1])

\* C19: what the constructor captured is read-only: no step of any facade
\* operation changes the security policy, the default bucket or the
\* transport handle.
C19_ConfigurationReadOnly ==
    [][/\ security' = security
       /\ defaultBucket' = defaultBucket
       /\ client' = client]_vars

\* a command went to a bucket the caller named, and the default bucket and
\* the handle are the constructor's
C19_Witness ==
    /\ InCall("deleteFile")
    /\ Args.bucket = Some("other")
    /\ sent # <<>>
    /\ sent[1].Bucket = "other"
    /\ defaultBucket = "my-bucket"
    /\ client = S3Client
    /\ security # Undefined

\* the step is an invocation of one of the five issuers
IssuerInvoked ==
    /\ call = Idle
    /\ call' # Idle
    /\ Val(call').method \in PresignMethods

\* C20: an invocation of a presigned-URL issuer, whether it resolves or is
\* rejected, sends no command to the transport and leaves the store as it
\* was; when it resolves, the one thing it did was to sign one command.
C20_IssuingLeavesStoreUnchanged ==
    [][IssuerInvoked =>
          /\ sent' = <<>>
          /\ answered' = <<>>
          /\ Val(session').storeVersion = Val(session).storeVersion
          /\ Len(signed') = (IF result'.status = "resolved" THEN 1 ELSE 0)]_vars

\* a URL for a delete is issued in a store that was changed before
C20_Witness ==
    /\ InCall("getPresignedDeleteUrl")
    /\ session # Undefined
    /\ Val(session).storeVersion = 1
    /\ result = Resolved("url")
    /\ sent = <<>>
    /\ Len(signed) = 1
    /\ signed[1].command.cmd = "DeleteObject"

\* C21: invocations that overlap do not influence each other's
\* authorization: whichever invocations are suspended when a call is made,
\* the call is denied exactly when the checks deny its request taken alone,
\* with their reason and without a command of its own reaching the
\* transport or the signer, and no suspended invocation is one the
\* validator denied.
C21_ConcurrentCallsIndependent ==
    /\ \A i \in DOMAIN inflight : inflight[i].allowed
    /\ (call # Idle /\ request # Undefined) =>
          LET alone == Answer(security, Req.operation, Req.key, Req.options)
          IN  /\ alone.threw =>
                    /\ result = Rejected(alone)
                    /\ sent = <<>> /\ answered = <<>> /\ signed = <<>>
              /\ ~ alone.threw =>
                    \/ sent # <<>>
                    \/ signed # <<>>
                    \/ /\ Method \in LimitedMethods
                       /\ result = Rejected(ExpiryError(Method))

\* a request is denied while an allowed upload is suspended at its send
C21_Witness ==
    /\ inflight # <<>>
    /\ inflight[1].awaits = "PutObject"
    /\ inflight[1].validated
    /\ call # Idle /\ request # Undefined
    /\ Decision.threw
    /\ result = Rejected(Decision)
    /\ sent = <<>>

\* the key begins with the characters of the entry, taken literally
BeginsWith(key, entry) ==
    Len(entry) <= Len(key) /\ SubSeq(key, 1, Len(entry)) = entry

BeginsWithAny(key, entries) == \E entry \in entries : BeginsWith(key, entry)

BaseKind(method) ==
    CASE method = "getPresignedUploadUrl" -> "write"
      [] method = "getPresignedDownloadUrl" -> "read"
      [] method = "getPresignedDeleteUrl" -> "delete"
      [] method = "getPresignedListUrl" -> "list"
      [] method = "getPresignedAclUrl" -> "acl_write"

PresignKinds ==
    {"presigned_upload", "presigned_download", "presigned_delete", "presigned_list"}

\* C23: every issuer passes the validator the base kind of the operation
\* its URL will perform (write, read, delete, list, acl_write), so a URL is
\* issued to a configured role only if the role's allowedOperations holds
\* that base kind, and no facade method passes a presigned_* kind.
C23_IssuersValidateBaseKind ==
    call # Idle =>
        /\ request # Undefined => Req.operation \notin PresignKinds
        /\ Method \in PresignMethods =>
              /\ request # Undefined
              /\ Req.operation = BaseKind(Method)
              /\ Req.key = Args.key
              /\ ( /\ result.status = "resolved"
                   /\ security # Undefined
                   /\ CarriesConfiguredRole ) =>
                      BaseKind(Method) \in Role.allowedOperations

\* a role that holds only read and list is issued a download URL
C23_Witness ==
    /\ InCall("getPresignedDownloadUrl")
    /\ security # Undefined
    /\ CarriesConfiguredRole
    /\ Role.allowedOperations = {"read", "list"}
    /\ Req.operation = "read"
    /\ result = Resolved("url")

\* C24: uploadFile validates the real body: the request's content length is
\* the byte length of the body and its content type is the contentType
\* argument, whatever options.contentLength and options.contentType say,
\* and an upload whose body is larger than the global maxFileSize, or than
\* the maxFileSize of its configured role, is denied.
C24_UploadValidatesRealBody ==
    InCall("uploadFile") =>
        /\ Req.options.contentLength = Some(ByteLength(Args.body))
        /\ Req.options.contentType = Args.contentType
        /\ ( /\ security # Undefined
             /\ Val(security).maxFileSize # Undefined
             /\ ByteLength(Args.body) > Val(Val(security).maxFileSize) ) => Denied
        /\ ( /\ security # Undefined
             /\ CarriesConfiguredRole
             /\ Role.maxFileSize # Undefined
             /\ ByteLength(Args.body) > Val(Role.maxFileSize) ) => Denied

\* the upload declares no content type
NoDeclaredType ==
    \/ InCall("uploadFile") /\ Args.contentType = Undefined
    \/ InCall("getPresignedUploadUrl") /\ Args.options.contentType = Undefined

\* C25: an upload that declares no content type (uploadFile without the
\* contentType argument, getPresignedUploadUrl without options.contentType)
\* is validated without one and is never denied with a content-type
\* reason, global or of its role, whatever the lists contain and whatever
\* options.contentType of uploadFile names.
C25_NoDeclaredTypeNeverDeniedForType ==
    NoDeclaredType =>
        /\ Req.options.contentType = Undefined
        /\ result.message \notin
              {"Content type is not allowed", "Content type is not allowed for role"}

\* an upload without a declared type, whose options name a type outside the
\* list, goes through
C25_Witness ==
    /\ InCall("uploadFile")
    /\ Args.contentType = Undefined
    /\ Args.options.contentType = Some("text/html")
    /\ security # Undefined
    /\ Val(security).allowedContentTypes = Some({"image/png"})
    /\ result.status = "resolved"
    /\ sent # <<>>

\* C26: checkBucket never fails: it sends one bucket-existence request and
\* resolves with true when the transport answers, and with false when the
\* transport fails in any way; its promise is never rejected.
C26_CheckBucketNeverFails ==
    InCall("checkBucket") =>
        /\ Len(sent) = 1
        /\ sent[1].cmd = "HeadBucket"
        /\ result = Resolved(IF answered[1].threw THEN "false" ELSE "true")

C26_Witness ==
    /\ InCall("checkBucket")
    /\ answered[1].threw
    /\ answered[1].name = "NetworkingError"
    /\ result = Resolved("false")

====
